---- MODULE Spec2Model ----
(***************************************************************************)
(* laraset: clone a Laravel repository, detect its PHP version, install    *)
(* dependencies and configure SQLite.  The program is one async function   *)
(* main() plus the rejection handler attached to it.  Two entry files      *)
(* exist: the CLI (with the SQLite/.env configuration step) and index.ts   *)
(* (without it); `entry` selects which one runs.                           *)
(*                                                                         *)
(* Text is modelled as sequences of characters (URL, PHP constraint) or    *)
(* as sequences of lines whose text is a sequence of tokens (.env).        *)
(***************************************************************************)
EXTENDS Integers, Sequences, FiniteSets, TLC

\* ------------------------------------------------------------------ bounds
MaxConstraintLen == 5
MaxEnvLines == 3
Passes == 2

VARIABLES
  pc,              \* position of main() / the handler
  entry,           \* "cli" or "index"
  url,             \* opts.url, <<>> when the flag is missing
  repoName,        \* path.basename(opts.url, ".git")
  dirExists,       \* fs.existsSync(repoDir)
  hasComposerJson, \* the project contains composer.json
  requiredPHP,     \* composerData.require?.php (Undefined when missing)
  phpVersion, majorVersion, dockerImage,
  hasArtisan,      \* the project contains the artisan file
  envExample,      \* content of .env.example
  envExists,       \* .env exists
  envFile,         \* content of .env on disk
  envContent,      \* the local variable envContent
  dbDirExists, sqliteExists,
  phar,            \* composer.phar exists in repoDir
  setupPhp,        \* composer-setup.php exists in repoDir
  invoked,         \* commands handed to exec(), in order
  inflight,        \* commands whose exec() callback has not yet run
  logged,          \* console.log / console.warn milestones
  failed,          \* the step whose failure is reported, "none" if no failure
  exitCode,        \* -1 while the process runs
  pass             \* number of the rewrite pass (rewrite-only specification)

cfgVars  == <<entry, url>>
repoVars == <<hasComposerJson, requiredPHP, hasArtisan, envExample>>
verVars  == <<phpVersion, majorVersion, dockerImage>>
envVars  == <<envExists, envFile, envContent, dbDirExists, sqliteExists>>
tmpVars  == <<phar, setupPhp>>
procVars == <<invoked, inflight>>
outVars  == <<logged, failed, exitCode>>
vars == <<pc, cfgVars, repoName, dirExists, repoVars, verVars, envVars,
          tmpVars, procVars, outVars, pass>>

\* ------------------------------------------------------- sequence helpers
Min2(a, b) == IF a < b THEN a ELSE b

Least(S) == CHOOSE i \in S : \A j \in S : i <= j

EndsWith(s, e) ==
  /\ Len(e) <= Len(s)
  /\ SubSeq(s, Len(s) - Len(e) + 1, Len(s)) = e

RECURSIVE StripTrailingSlashes(_)
StripTrailingSlashes(s) ==
  IF s # <<>> /\ s[Len(s)] = "/"
  THEN StripTrailingSlashes(SubSeq(s, 1, Len(s) - 1))
  ELSE s

LastSegment(s) ==
  LET slashes == {i \in 1..Len(s) : s[i] = "/"}
  IN IF slashes = {} THEN s
     ELSE SubSeq(s, (CHOOSE i \in slashes : \A j \in slashes : j <= i) + 1, Len(s))

GitExt == <<".", "g", "i", "t">>

\* path.basename(p, ext)
Basename(p, ext) ==
  LET seg == LastSegment(StripTrailingSlashes(p))
  IN IF EndsWith(seg, ext) /\ seg # ext
     THEN SubSeq(seg, 1, Len(seg) - Len(ext))
     ELSE seg

\* --------------------------------------------------------- PHP version tag
Undefined == <<"undefined">>
Digits == {"0", "1", "2", "3", "4", "5", "6", "7", "8", "9"}
DefaultPHP == <<"8", ".", "2">>

IsNumDot(c) == c \in Digits \cup {"."}

\* requiredPHP.replace(/[^\d.]/g, "")
FilterNumDot(s) == SelectSeq(s, IsNumDot)

\* requiredPHP ? ... : "8.2"   (undefined and "" are both falsy)
PhpVersion(req) ==
  IF req = Undefined \/ req = <<>> THEN DefaultPHP ELSE FilterNumDot(req)

\* s.split(".")
RECURSIVE SplitDot(_)
SplitDot(s) ==
  LET dots == {i \in 1..Len(s) : s[i] = "."}
  IN IF dots = {} THEN <<s>>
     ELSE LET i == Least(dots)
          IN <<SubSeq(s, 1, i - 1)>> \o SplitDot(SubSeq(s, i + 1, Len(s)))

\* parts.join(".")
RECURSIVE JoinDot(_)
JoinDot(parts) ==
  IF parts = <<>> THEN <<>>
  ELSE IF Len(parts) = 1 THEN parts[1]
  ELSE parts[1] \o <<".">> \o JoinDot(Tail(parts))

MajorVersionSlice3(v) ==
  LET parts == SplitDot(v) IN JoinDot(SubSeq(parts, 1, Min2(3, Len(parts))))

\* phpVersion.split(".").slice(0, 2).join(".")
MajorVersion(v) ==
  LET parts == SplitDot(v) IN JoinDot(SubSeq(parts, 1, Min2(2, Len(parts))))

DockerImage(m) == <<"php:">> \o m \o <<"-cli">>

\* ------------------------------------------------------------ .env rewrite
Keys == <<"DB_CONNECTION", "DB_DATABASE", "DB_HOST", "DB_PORT",
          "DB_USERNAME", "DB_PASSWORD">>
KeySet == {Keys[i] : i \in 1..Len(Keys)}

Replacement(k) ==
  CASE k = "DB_CONNECTION" -> <<"DB_CONNECTION", "=", "sqlite">>
    [] k = "DB_DATABASE"   -> <<"DB_DATABASE", "=", "/database/database.sqlite">>
    [] k = "DB_HOST"       -> <<"# ", "DB_HOST", "=">>
    [] k = "DB_PORT"       -> <<"# ", "DB_PORT", "=">>
    [] k = "DB_USERNAME"   -> <<"DB_USERNAME", "=">>
    [] k = "DB_PASSWORD"   -> <<"DB_PASSWORD", "=">>

\* /^KEY=.*$/m matches a line iff its text starts with KEY followed by "="
LineMatches(text, k) == Len(text) >= 2 /\ text[1] = k /\ text[2] = "="

ReplaceAll(content, k) ==
  [i \in 1..Len(content) |->
     IF LineMatches(content[i].text, k)
     THEN [content[i] EXCEPT !.text = Replacement(k)]
     ELSE content[i]]

\* content.replace(/^KEY=.*$/m, replacement): no g flag, first match only;
\* "." stops before the line terminator, which is kept
ReplaceFirst(content, k) ==
  LET idx == {i \in 1..Len(content) : LineMatches(content[i].text, k)}
  IN IF idx = {} THEN content
     ELSE [content EXCEPT ![Least(idx)].text = Replacement(k)]

RECURSIVE RewriteFrom(_, _)
RewriteFrom(content, n) ==
  IF n > Len(Keys) THEN content
  ELSE RewriteFrom(ReplaceFirst(content, Keys[n]), n + 1)

\* the six replacements in source order
RewriteEnv(content) == RewriteFrom(content, 1)

\* ------------------------------------------------------------ input domains
Urls == { <<>>,
          <<"h", "/", "d", ".", "g", "i", "t">>,
          <<"h", "/", "d">>,
          <<"h", "/", "d", ".", "g", "i", "t", "/">>,
          <<"h", "/", ".", "g", "i", "t">> }

PhpChars == {"8", "2", ".", "^"}

SeqsUpTo(S, n) == UNION {[1..m -> S] : m \in 0..n}

AllConstraints == {Undefined} \cup SeqsUpTo(PhpChars, MaxConstraintLen)
SampleConstraints == {Undefined, <<"^", "8", ".", "2">>}

Line(text) == [text |-> text, eol |-> "\n"]

EnvTexts ==
  {<<k, "=", "v">> : k \in KeySet} \cup {Replacement(k) : k \in KeySet}
    \cup {<<"APP_NAME", "=", "v">>}
EnvLines ==
  {Line(t) : t \in EnvTexts} \cup {[text |-> <<"DB_HOST", "=", "v">>, eol |-> "\r\n"]}

AllEnvFiles == SeqsUpTo(EnvLines, MaxEnvLines)
SampleEnvFiles ==
  { <<Line(<<"APP_NAME", "=", "v">>), Line(<<"DB_CONNECTION", "=", "v">>),
      Line(<<"DB_HOST", "=", "v">>)>>,
    <<Line(<<"DB_HOST", "=", "v">>), Line(<<"DB_HOST", "=", "v">>)>>,
    <<Line(<<"APP_NAME", "=", "v">>)>> }

\* ------------------------------------------------------------ process steps
AwaitTouchMayFire == {"await_keygen", "await_migrate", "returned"}

\* runCommand: exec() is called at once, the promise settles in its callback
runCommand(cmd) ==
  /\ invoked' = Append(invoked, cmd)
  /\ inflight' = inflight \cup {cmd}

Settled(cmd) ==
  /\ cmd \in inflight
  /\ inflight' = inflight \ {cmd}
  /\ invoked' = invoked

Init ==
  /\ pc = "args"
  /\ entry \in {"cli", "index"}
  /\ url \in Urls
  /\ repoName = <<>>
  /\ dirExists \in BOOLEAN
  /\ hasComposerJson \in BOOLEAN
  /\ requiredPHP \in SampleConstraints
  /\ phpVersion = <<>> /\ majorVersion = <<>> /\ dockerImage = <<>>
  /\ hasArtisan \in BOOLEAN
  /\ envExample \in SampleEnvFiles
  /\ envExists \in BOOLEAN
  /\ envFile = IF envExists THEN envExample ELSE <<>>  \* an existing .env starts as a copy of the template
  /\ envContent = <<>>
  /\ dbDirExists \in BOOLEAN
  /\ sqliteExists \in (IF dbDirExists THEN BOOLEAN ELSE {FALSE})
  /\ phar \in (IF dirExists THEN BOOLEAN ELSE {FALSE})
  /\ setupPhp \in (IF dirExists THEN BOOLEAN ELSE {FALSE})
  /\ invoked = <<>>
  /\ inflight = {}
  /\ logged = {}
  /\ failed = "none"
  /\ exitCode = -1
  /\ pass = 0

\* program.parse; if (!opts.url) process.exit(1)
ParseArgs ==
  /\ pc = "args"
  /\ IF url = <<>>
     THEN /\ pc' = "exited" /\ exitCode' = 1 /\ failed' = "usage"
     ELSE /\ pc' = "preflight" /\ exitCode' = exitCode /\ failed' = failed
  /\ UNCHANGED <<cfgVars, repoName, dirExists, repoVars, verVars, envVars,
                 tmpVars, procVars, logged, pass>>

\* checkCommandExist("docker"): runCommand(`which docker`)
CheckDocker ==
  /\ pc = "preflight"
  /\ runCommand("which docker")
  /\ pc' = "await_which"
  /\ UNCHANGED <<cfgVars, repoName, dirExists, repoVars, verVars, envVars,
                 tmpVars, outVars, pass>>

\* which settles; if (!dockerExists) process.exit(1)
WhichDone ==
  /\ pc = "await_which"
  /\ Settled("which docker")
  /\ \E ok \in BOOLEAN :
       IF ok
       THEN /\ pc' = "materialize" /\ exitCode' = exitCode /\ failed' = failed
       ELSE /\ pc' = "exited" /\ exitCode' = 1 /\ failed' = "docker"
  /\ UNCHANGED <<cfgVars, repoName, dirExists, repoVars, verVars, envVars,
                 tmpVars, logged, pass>>

RepoDirExistsNever == FALSE

\* fs.existsSync(repoDir)
RepoDirExists == dirExists

\* repoName = path.basename(opts.url, ".git"); clone unless repoDir exists
Materialize ==
  /\ pc = "materialize"
  /\ repoName' = Basename(url, GitExt)
  /\ IF RepoDirExists
     THEN /\ pc' = "detect" /\ UNCHANGED procVars
     ELSE /\ pc' = "await_clone" /\ runCommand("git clone")
  /\ UNCHANGED <<cfgVars, dirExists, repoVars, verVars, envVars, tmpVars,
                 outVars, pass>>

\* git clone settles; a rejection propagates out of main()
CloneDone ==
  /\ pc = "await_clone"
  /\ Settled("git clone")
  /\ \E ok \in BOOLEAN :
       IF ok
       THEN /\ pc' = "detect" /\ dirExists' = TRUE /\ failed' = failed
       ELSE /\ pc' = "catch" /\ dirExists' = dirExists /\ failed' = "clone"
  /\ UNCHANGED <<cfgVars, repoName, repoVars, verVars, envVars, tmpVars,
                 logged, exitCode, pass>>

\* composer.json check, PHP version detection, docker image name
DetectVersion ==
  /\ pc = "detect"
  /\ IF ~(dirExists /\ hasComposerJson)
     THEN /\ pc' = "exited" /\ exitCode' = 1 /\ failed' = "manifest"
          /\ UNCHANGED verVars
     ELSE /\ phpVersion' = PhpVersion(requiredPHP)
          /\ majorVersion' = MajorVersion(phpVersion')
          /\ dockerImage' = DockerImage(majorVersion')
          /\ pc' = "download" /\ exitCode' = exitCode /\ failed' = failed
  /\ UNCHANGED <<cfgVars, repoName, dirExists, repoVars, envVars, tmpVars,
                 procVars, logged, pass>>

\* STEP 1: curl ... -o repoDir/composer.phar
Download ==
  /\ pc = "download"
  /\ runCommand("curl")
  /\ pc' = "await_curl"
  /\ UNCHANGED <<cfgVars, repoName, dirExists, repoVars, verVars, envVars,
                 tmpVars, outVars, pass>>

\* curl settles: the file is written on success, a failed transfer may or
\* may not leave a partial file
CurlDone ==
  /\ pc = "await_curl"
  /\ Settled("curl")
  /\ \E ok \in BOOLEAN, partial \in BOOLEAN :
       IF ok
       THEN /\ pc' = "install" /\ phar' = TRUE /\ failed' = failed
       ELSE /\ pc' = "catch" /\ phar' = (phar \/ partial) /\ failed' = "curl"
  /\ UNCHANGED <<cfgVars, repoName, dirExists, repoVars, verVars, envVars,
                 setupPhp, logged, exitCode, pass>>

\* STEP 2: php composer.phar install --no-interaction
Install ==
  /\ pc = "install"
  /\ runCommand("composer install")
  /\ pc' = "await_install"
  /\ UNCHANGED <<cfgVars, repoName, dirExists, repoVars, verVars, envVars,
                 tmpVars, outVars, pass>>

\* composer settles; the project's install scripts run in repoDir and may
\* leave composer.phar in place or remove it
InstallDone ==
  /\ pc = "await_install"
  /\ Settled("composer install")
  /\ \E ok \in BOOLEAN, keeps \in BOOLEAN :
       /\ phar' = (phar /\ keeps)
       /\ IF ok
          THEN /\ pc' = "copy_env" /\ failed' = failed
          ELSE /\ pc' = "catch" /\ failed' = "install"
  /\ UNCHANGED <<cfgVars, repoName, dirExists, repoVars, verVars, envVars,
                 setupPhp, logged, exitCode, pass>>

\* STEP 3: cp .env.example .env unless .env exists
CopyEnv ==
  /\ pc = "copy_env"
  /\ IF envExists
     THEN /\ pc' = "check_artisan" /\ UNCHANGED procVars
     ELSE /\ pc' = "await_cp" /\ runCommand("cp")
  /\ UNCHANGED <<cfgVars, repoName, dirExists, repoVars, verVars, envVars,
                 tmpVars, outVars, pass>>

CpDone ==
  /\ pc = "await_cp"
  /\ Settled("cp")
  /\ \E ok \in BOOLEAN :
       IF ok
       THEN /\ pc' = "check_artisan" /\ envExists' = TRUE
            /\ envFile' = envExample /\ failed' = failed
       ELSE /\ pc' = "catch" /\ envExists' = envExists
            /\ envFile' = envFile /\ failed' = "cp"
  /\ UNCHANGED <<cfgVars, repoName, dirExists, repoVars, verVars, envContent,
                 dbDirExists, sqliteExists, tmpVars, logged, exitCode, pass>>

ArtisanMissingIgnored == FALSE

\* !fs.existsSync(artisanPath)
ArtisanMissing == ~(dirExists /\ hasArtisan)

\* artisan check: throw new Error("Laravel artisan file missing")
CheckArtisan ==
  /\ pc = "check_artisan"
  /\ IF ArtisanMissing
     THEN /\ pc' = "catch" /\ failed' = "artisan"
     ELSE /\ pc' = "debug" /\ failed' = failed
  /\ UNCHANGED <<cfgVars, repoName, dirExists, repoVars, verVars, envVars,
                 tmpVars, procVars, logged, exitCode, pass>>

\* docker run ... ls -la /app
Debug ==
  /\ pc = "debug"
  /\ runCommand("docker ls")
  /\ pc' = "await_debug"
  /\ UNCHANGED <<cfgVars, repoName, dirExists, repoVars, verVars, envVars,
                 tmpVars, outVars, pass>>

\* the listing settles; a failure is caught and only warned about.  The CLI
\* goes on to the SQLite configuration, index.ts straight to key generation
DebugDone ==
  /\ pc = "await_debug"
  /\ Settled("docker ls")
  /\ \E ok \in BOOLEAN :
       logged' = IF ok THEN logged ELSE logged \cup {"debug failed"}
  /\ pc' = IF entry = "cli" THEN "configure" ELSE "keygen"
  /\ UNCHANGED <<cfgVars, repoName, dirExists, repoVars, verVars, envVars,
                 tmpVars, failed, exitCode, pass>>

\* STEP 5: database directory and file, .env rewrite, then
\* runCommand("touch database.sqlite", ...) without await
ConfigureEnv ==
  /\ pc = "configure"
  /\ dbDirExists' = TRUE
  /\ sqliteExists' = TRUE
  /\ envContent' = RewriteEnv(envFile)
  /\ envFile' = envContent'
  /\ runCommand("touch")
  /\ logged' = logged \cup {"env updated"}
  /\ pc' = "keygen"
  /\ UNCHANGED <<cfgVars, repoName, dirExists, repoVars, verVars, envExists,
                 tmpVars, failed, exitCode, pass>>

\* the callback of the un-awaited touch: it can only run while main() is
\* suspended or has returned.  A rejection has no handler: the runtime either
\* only warns or terminates the process with exit code 1
TouchDone ==
  /\ pc \in AwaitTouchMayFire
  /\ Settled("touch")
  /\ \E ok \in BOOLEAN, crash \in BOOLEAN :
       IF ok \/ ~crash
       THEN UNCHANGED <<pc, failed, exitCode>>
       ELSE /\ pc' = "exited" /\ exitCode' = 1
            /\ failed' = IF failed = "none" THEN "touch" ELSE failed
  /\ UNCHANGED <<cfgVars, repoName, dirExists, repoVars, verVars, envVars,
                 tmpVars, logged, pass>>

\* php artisan key:generate --force
KeyGen ==
  /\ pc = "keygen"
  /\ runCommand("key:generate")
  /\ pc' = "await_keygen"
  /\ UNCHANGED <<cfgVars, repoName, dirExists, repoVars, verVars, envVars,
                 tmpVars, outVars, pass>>

AfterKeyGenSwallow(ok) == "migrate"

\* catch (keyError) { ...; throw keyError }
AfterKeyGen(ok) == IF ok THEN "migrate" ELSE "catch"

KeyGenDone ==
  /\ pc = "await_keygen"
  /\ Settled("key:generate")
  /\ \E ok \in BOOLEAN :
       /\ pc' = AfterKeyGen(ok)
       /\ failed' = IF ok THEN failed ELSE "keygen"
  /\ UNCHANGED <<cfgVars, repoName, dirExists, repoVars, verVars, envVars,
                 tmpVars, logged, exitCode, pass>>

\* STEP 6: php artisan migrate --force
Migrate ==
  /\ pc = "migrate"
  /\ runCommand("migrate")
  /\ pc' = "await_migrate"
  /\ UNCHANGED <<cfgVars, repoName, dirExists, repoVars, verVars, envVars,
                 tmpVars, outVars, pass>>

AfterMigrateRethrow(ok) == IF ok THEN "cleanup" ELSE "catch"

\* catch (migrateError) { console.warn(...) }
AfterMigrate(ok) == "cleanup"

MigrateDone ==
  /\ pc = "await_migrate"
  /\ Settled("migrate")
  /\ \E ok \in BOOLEAN :
       /\ pc' = AfterMigrate(ok)
       /\ logged' = IF ok THEN logged ELSE logged \cup {"migration failed"}
  /\ UNCHANGED <<cfgVars, repoName, dirExists, repoVars, verVars, envVars,
                 tmpVars, failed, exitCode, pass>>

\* STEP 7: fs.unlinkSync(composer.phar) throws ENOENT when the file is absent
Cleanup ==
  /\ pc = "cleanup"
  /\ IF phar
     THEN /\ phar' = FALSE /\ pc' = "returned" /\ failed' = failed
     ELSE /\ phar' = phar /\ pc' = "catch" /\ failed' = "unlink"
  /\ UNCHANGED <<cfgVars, repoName, dirExists, repoVars, verVars, envVars,
                 setupPhp, procVars, logged, exitCode, pass>>

\* main().catch: re-derive the directory from the flag, remove composer.phar
\* and composer-setup.php when they exist, process.exit(1)
CatchHandler ==
  /\ pc = "catch"
  /\ LET sameDir == Basename(url, GitExt) = repoName
     IN /\ phar' = IF sameDir THEN FALSE ELSE phar
        /\ setupPhp' = IF sameDir THEN FALSE ELSE setupPhp
  /\ pc' = "exited"
  /\ exitCode' = 1
  /\ UNCHANGED <<cfgVars, repoName, dirExists, repoVars, verVars, envVars,
                 procVars, logged, failed, pass>>

\* main() resolved and nothing is pending: the process ends with code 0
ProcessExit ==
  /\ pc = "returned"
  /\ inflight = {}
  /\ pc' = "exited"
  /\ exitCode' = 0
  /\ UNCHANGED <<cfgVars, repoName, dirExists, repoVars, verVars, envVars,
                 tmpVars, procVars, logged, failed, pass>>

Next ==
  \/ ParseArgs \/ CheckDocker \/ WhichDone \/ Materialize \/ CloneDone
  \/ DetectVersion \/ Download \/ CurlDone \/ Install \/ InstallDone
  \/ CopyEnv \/ CpDone \/ CheckArtisan \/ Debug \/ DebugDone
  \/ ConfigureEnv \/ TouchDone \/ KeyGen \/ KeyGenDone \/ Migrate
  \/ MigrateDone \/ Cleanup \/ CatchHandler \/ ProcessExit

Spec == Init /\ [][Next]_vars

\* ------------------------------------------------ version detection alone
\* DetectVersion applied to every constraint string up to MaxConstraintLen
InitPhp ==
  /\ pc = "detect"
  /\ entry = "cli"
  /\ url = <<"h", "/", "d", ".", "g", "i", "t">>
  /\ repoName = <<"d">>
  /\ dirExists = TRUE
  /\ hasComposerJson \in BOOLEAN
  /\ requiredPHP \in AllConstraints
  /\ phpVersion = <<>> /\ majorVersion = <<>> /\ dockerImage = <<>>
  /\ hasArtisan = TRUE
  /\ envExample = <<>> /\ envExists = FALSE /\ envFile = <<>> /\ envContent = <<>>
  /\ dbDirExists = FALSE /\ sqliteExists = FALSE
  /\ phar = FALSE /\ setupPhp = FALSE
  /\ invoked = <<"which docker">> /\ inflight = {}
  /\ logged = {} /\ failed = "none" /\ exitCode = -1
  /\ pass = 0

NextPhp == DetectVersion

SpecPhp == InitPhp /\ [][NextPhp]_vars

\* ------------------------------------------------------ .env rewrite alone
\* the read / rewrite / write of .env, run Passes times over the same file
InitEnv ==
  /\ pc = "env_read"
  /\ entry = "cli"
  /\ url = <<"h", "/", "d", ".", "g", "i", "t">>
  /\ repoName = <<"d">>
  /\ dirExists = TRUE
  /\ hasComposerJson = TRUE
  /\ requiredPHP = Undefined
  /\ phpVersion = <<>> /\ majorVersion = <<>> /\ dockerImage = <<>>
  /\ hasArtisan = TRUE
  /\ envExample = <<>>
  /\ envExists = TRUE
  /\ envFile \in AllEnvFiles
  /\ envContent = <<>>
  /\ dbDirExists = TRUE /\ sqliteExists = TRUE
  /\ phar = TRUE /\ setupPhp = FALSE
  /\ invoked = <<>> /\ inflight = {}
  /\ logged = {} /\ failed = "none" /\ exitCode = -1
  /\ pass = 1

\* let envContent = fs.readFileSync(envPath, "utf-8")
ReadEnvFile ==
  /\ pc = "env_read"
  /\ envContent' = envFile
  /\ pc' = "env_loaded"
  /\ UNCHANGED <<cfgVars, repoName, dirExists, repoVars, verVars, envExists,
                 envFile, dbDirExists, sqliteExists, tmpVars, procVars,
                 outVars, pass>>

\* the six envContent = envContent.replace(...) statements
ApplyRewrite ==
  /\ pc = "env_loaded"
  /\ envContent' = RewriteEnv(envContent)
  /\ pc' = "env_rewritten"
  /\ UNCHANGED <<cfgVars, repoName, dirExists, repoVars, verVars, envExists,
                 envFile, dbDirExists, sqliteExists, tmpVars, procVars,
                 outVars, pass>>

\* fs.writeFileSync(envPath, envContent); a later run starts over
WriteEnvFile ==
  /\ pc = "env_rewritten"
  /\ envFile' = envContent
  /\ IF pass < Passes
     THEN pc' = "env_read" /\ pass' = pass + 1
     ELSE pc' = "env_done" /\ pass' = pass
  /\ UNCHANGED <<cfgVars, repoName, dirExists, repoVars, verVars, envExists,
                 envContent, dbDirExists, sqliteExists, tmpVars, procVars,
                 outVars>>

NextEnv == ReadEnvFile \/ ApplyRewrite \/ WriteEnvFile

SpecEnv == InitEnv /\ [][NextEnv]_vars

\* ================================================================ properties
Range(s) == {s[i] : i \in DOMAIN s}

Clones == Cardinality({i \in DOMAIN invoked : invoked[i] = "git clone"})

\* position of every command and every fatal step in the order of main()
Rank(x) ==
  CASE x = "which docker" -> 1   [] x = "docker" -> 1
    [] x = "git clone" -> 2      [] x = "clone" -> 2
    [] x = "manifest" -> 3
    [] x = "curl" -> 4
    [] x = "composer install" -> 5 [] x = "install" -> 5
    [] x = "cp" -> 6
    [] x = "docker ls" -> 7
    [] x = "touch" -> 8
    [] x = "key:generate" -> 9   [] x = "keygen" -> 9
    [] x = "migrate" -> 10

FatalSteps == {"docker", "clone", "manifest", "curl", "install", "keygen"}

\* C1: once the migration command has failed, the run is at or past the
\* cleanup step; the only failures that can follow are those of the cleanup
\* unlink and of the detached touch; composer.phar is gone once the cleanup
\* step is passed, and with no other failure the exit code is 0.
C1_MigrationFailureNotFatal ==
  "migration failed" \in logged =>
    /\ pc \in {"cleanup", "returned", "catch", "exited"}
    /\ failed \in {"none", "unlink", "touch"}
    /\ (pc = "catch" => failed = "unlink")
    /\ (pc \in {"returned", "exited"} => ~phar)
    /\ (pc = "exited" /\ failed = "none" => exitCode = 0)

C1_Witness ==
  /\ "migration failed" \in logged
  /\ pc = "exited" /\ exitCode = 0 /\ ~phar /\ failed = "none"

\* C2: cleanup removes composer.phar on the success path and in the failure
\* handler, and an absent composer.phar at cleanup time is never a failure.
C2_CleanupIgnoresAbsentFile ==
  /\ (pc = "exited" /\ failed \notin {"usage", "docker", "manifest", "touch"}
        => ~phar)
  /\ failed # "unlink"

\* C3: at most one spawned command is in flight, and key:generate never
\* runs while the touch command is still running.
C3_OneCommandAtATime ==
  /\ Cardinality(inflight) <= 1
  /\ ~({"touch", "key:generate"} \subseteq inflight)

\* C4: rewriting an already rewritten .env leaves it unchanged.
C4_RewriteIdempotent ==
  (pc = "env_rewritten" /\ pass >= 2) => envContent = envFile

\* C5: with the artisan file absent neither key:generate nor migrate is
\* ever invoked, the failed check leads to the handler, and the process
\* exits non-zero.
C5_MissingArtisanAborts ==
  ~hasArtisan =>
    /\ "key:generate" \notin Range(invoked)
    /\ "migrate" \notin Range(invoked)
    /\ pc \notin {"debug", "await_debug", "configure", "keygen", "returned"}
    /\ (pc = "exited" => exitCode = 1)

C5_Witness ==
  /\ ~hasArtisan /\ failed = "artisan" /\ pc = "exited" /\ exitCode = 1
  /\ "composer install" \in Range(invoked)

\* C6: the directory name is the last URL segment without ".git"; when it
\* exists at the materializer step git clone is not invoked, otherwise it is
\* invoked exactly once, nowhere else, and its failure ends the run with a
\* non-zero exit and no further command.
C6_CloneOnlyWhenDirMissing ==
  [][ /\ (pc = "materialize" /\ dirExists => Clones' = 0 /\ pc' = "detect")
      /\ (pc = "materialize" /\ ~dirExists => Clones' = 1 /\ pc' = "await_clone")
      /\ (Clones' # Clones => pc = "materialize" /\ ~dirExists)
      /\ (pc = "materialize"
            /\ EndsWith(url, <<"/", "d", ".", "g", "i", "t">>)
            => repoName' = <<"d">>)
      /\ (failed' = "clone" =>
            /\ pc' \in {"catch", "exited"}
            /\ (pc' = "exited" => exitCode' = 1)
            /\ invoked'[Len(invoked')] = "git clone")
    ]_vars

C6_Witness ==
  /\ failed = "clone" /\ pc = "exited" /\ Clones = 1 /\ repoName = <<"d">>

RECURSIVE KeepNumDot(_)
KeepNumDot(s) ==
  IF s = <<>> THEN <<>>
  ELSE IF Head(s) \in Digits \/ Head(s) = "."
       THEN <<Head(s)>> \o KeepNumDot(Tail(s))
       ELSE KeepNumDot(Tail(s))

\* the prefix of s that ends before its n-th dot
RECURSIVE BeforeNthDot(_, _)
BeforeNthDot(s, n) ==
  IF s = <<>> THEN <<>>
  ELSE IF Head(s) = "."
       THEN IF n = 1 THEN <<>> ELSE <<".">> \o BeforeNthDot(Tail(s), n - 1)
       ELSE <<Head(s)>> \o BeforeNthDot(Tail(s), n)

DotCount(s) == Cardinality({i \in DOMAIN s : s[i] = "."})

TwoComponents(s) ==
  /\ DotCount(s) <= 1
  /\ \A i \in DOMAIN s : s[i] \in Digits \cup {"."}

\* C7 as stated: every constraint string, the empty one included, gives its
\* numeric-dot characters cut before the second dot; missing gives 8.2.
C7_TagOfEveryConstraint ==
  pc = "download" =>
    /\ majorVersion = IF requiredPHP = Undefined THEN DefaultPHP
                      ELSE BeforeNthDot(KeepNumDot(requiredPHP), 2)
    /\ TwoComponents(majorVersion)

\* C7 amended: every non-empty constraint string gives its numeric-dot
\* characters cut before the second dot; a missing or empty constraint
\* gives 8.2; the tag has at most two components of digits.
C7_TagOfNonEmptyConstraint ==
  pc = "download" =>
    /\ majorVersion = IF requiredPHP \in {Undefined, <<>>} THEN DefaultPHP
                      ELSE BeforeNthDot(KeepNumDot(requiredPHP), 2)
    /\ dockerImage = <<"php:">> \o majorVersion \o <<"-cli">>
    /\ TwoComponents(majorVersion)

C7_Witness ==
  /\ pc = "download"
  /\ requiredPHP = <<"8", ".", "2", ".", "8">>
  /\ majorVersion = <<"8", ".", "2">>

\* C8: after the failure of a fatal step the run is in the handler or has
\* exited, no command of a later stage has been invoked, the exit code is
\* 1, and for a failure after the download started composer.phar is gone
\* at exit.
C8_FatalStepStopsRun ==
  failed \in FatalSteps =>
    /\ pc \in {"catch", "exited"}
    /\ \A i \in DOMAIN invoked : Rank(invoked[i]) <= Rank(failed)
    /\ (pc = "exited" =>
          /\ exitCode = 1
          /\ (failed \in {"curl", "install", "keygen"} => ~phar))

C8_Witness ==
  /\ failed = "keygen" /\ pc = "exited" /\ exitCode = 1 /\ ~phar
  /\ "touch" \in Range(invoked)

FirstWithKey(content, k, i) ==
  /\ LineMatches(content[i].text, k)
  /\ \A j \in 1..(i - 1) : ~LineMatches(content[j].text, k)

\* C9: the rewrite keeps the number of lines and every line terminator,
\* changes a line only if it is the first line starting with one of the six
\* keys, and introduces no line starting with a key that had none.
C9_RewriteFrame ==
  pc = "env_rewritten" =>
    /\ Len(envContent) = Len(envFile)
    /\ \A i \in DOMAIN envFile :
         /\ envContent[i].eol = envFile[i].eol
         /\ (envContent[i] # envFile[i] =>
               \E k \in KeySet : FirstWithKey(envFile, k, i))
    /\ \A k \in KeySet :
         (\A i \in DOMAIN envFile : ~LineMatches(envFile[i].text, k))
           => (\A i \in DOMAIN envContent : ~LineMatches(envContent[i].text, k))

C9_Witness ==
  /\ pc = "env_rewritten"
  /\ envFile = <<Line(<<"DB_HOST", "=", "v">>), Line(<<"DB_HOST", "=", "v">>),
                 Line(<<"APP_NAME", "=", "v">>)>>
  /\ envContent = <<Line(<<"# ", "DB_HOST", "=">>), Line(<<"DB_HOST", "=", "v">>),
                    Line(<<"APP_NAME", "=", "v">>)>>

\* C10: the environment configurator, the .env rewrite included, has
\* completed before the entry-point check, so a run aborted by a missing
\* artisan file has already rewritten .env.
C10_EnvConfiguredBeforeArtisanCheck ==
  entry = "cli" =>
    /\ (pc = "check_artisan" => "env updated" \in logged)
    /\ (failed = "artisan" => "env updated" \in logged)

====
